---- MODULE Spec2Model ----
(***************************************************************************)
(* A model of pypeit/wavetilts.py (class WaveTilts): the run driver with   *)
(* its per-slit stages, the arc-line selection of _trace_tilts, and the    *)
(* master-file persistence (save_master, load_master, from_master_files).  *)
(***************************************************************************)
EXTENDS Integers, Sequences, FiniteSets, TLC

(***************************************************************************)
(* Bounds of the model.                                                    *)
(***************************************************************************)
MaxSpec == 3
MaxSlits == 2
MaxRuns == 2
MaxPeaks == 3
MaxLines == 3
MaxIO == 2

(***************************************************************************)
(* Python's None and a present value.                                      *)
(***************************************************************************)
None == [none |-> TRUE]
Some(v) == [val |-> v]

VARIABLES
    par,          \* self.par: method, tracethresh (its type, and its value as
                  \* a number and as a list), func2D, order, yorder
    msarc,        \* the arc exposure: its shape (nspec, nspat)
    nslit,        \* self.nslit
    maskslits,    \* the maskslits argument of run
    env,          \* what the collaborators return for this exposure, the left
                  \* and right edge of every slit (tslits_dict), and the
                  \* wv_calib argument of run
    final_tilts,  \* self.final_tilts
    coeffs,       \* self.coeffs
    mask,         \* self.mask
    steps,        \* self.steps
    all_trcdict,  \* self.all_trcdict
    all_ttilts,   \* self.all_ttilts
    tilts,        \* self.tilts
    tilts_dict,   \* self.tilts_dict
    slitmask,     \* self.slitmask
    arc_maskslit, \* self.arc_maskslit
    pc,           \* where run stands
    gdslits,      \* run's local gdslits
    cursor,       \* position of the loop of run in gdslits
    ret,          \* what the last call returned
    exc,          \* exception propagated by the last call
    trace,        \* locals of the last call of _trace_tilts
    run_count,    \* calls of run made so far
    calls,        \* stages entered by the current call of run, in order
    entry,        \* the object's outputs when the current call of run began
    prev,         \* the outputs the previous call of run left
    disk,         \* the master tilts file, None while there is none
    io,           \* the calls of save_master, load_master, from_master_files,
                  \* each with the number of calls of run made before it
    loaded,       \* the object from_master_files built
    io_count,     \* calls of these three made so far
    slit_pc,      \* per slit, where its pipeline stands when the pipelines
                  \* of the loop of run are interleaved
    build         \* the call of buildimage_fromlist: arguments and outcome

vars == <<par, msarc, nslit, maskslits, env, final_tilts, coeffs, mask, steps,
          all_trcdict, all_ttilts, tilts, tilts_dict, slitmask, arc_maskslit,
          pc, gdslits, cursor, ret, exc, trace, run_count, calls, entry,
          prev, disk, io, loaded, io_count, slit_pc, build>>

inputs == <<par, msarc, nslit, maskslits, env>>

object == <<final_tilts, coeffs, mask, steps, all_trcdict, all_ttilts, tilts,
            tilts_dict, slitmask, arc_maskslit, pc, gdslits, cursor, ret, exc,
            trace, run_count, calls, entry, prev, slit_pc>>

store == <<disk, io, loaded, io_count>>

(***************************************************************************)
(* Values of pixels are rationals <<numerator, denominator>>.              *)
(***************************************************************************)
Zero == <<0, 1>>
Slits == 0 .. (nslit - 1)
Pixels == (0 .. (msarc.nspec - 1)) \X (0 .. (msarc.nspat - 1))

Methods == {"zero", "ZERO", "spca", "bogus"}

\* str.lower on the methods above
Lower(m) == IF m = "ZERO" THEN "zero" ELSE m
ThreshKinds == {"number", "list", "other"}

(***************************************************************************)
(* Arc-line selection of _trace_tilts.  Positions are in half pixels.      *)
(***************************************************************************)
tracethresh == 10
n_neigh == 15

HalfPix(x) == 2 * x
Abs(x) == IF x < 0 THEN -x ELSE x

\* aduse[w] = 1 for w = np.where(nsig >= tracethresh)
Candidates(pk) == [i \in DOMAIN pk |-> pk[i].nsig >= tracethresh]

\* a detection within n_neigh pixels, at least one pixel away
Neighbour(pk, i, j) ==
    /\ Abs(pk[j].pos - pk[i].pos) <= HalfPix(n_neigh)
    /\ Abs(pk[j].pos - pk[i].pos) >= HalfPix(1)

\* the loop over the candidates: a candidate is dropped when a neighbouring
\* detection is strictly more significant
RECURSIVE SuppressLoop(_, _, _)
SuppressLoop(pk, idxuse, aduse) ==
    IF idxuse = <<>> THEN aduse
    ELSE LET s == Head(idxuse)
             drop == \E j \in DOMAIN pk :
                         Neighbour(pk, s, j) /\ pk[j].nsig > pk[s].nsig
         IN SuppressLoop(pk, Tail(idxuse),
                         IF drop THEN [aduse EXCEPT ![s] = FALSE] ELSE aduse)

RECURSIVE IndicesWhere(_, _)
IndicesWhere(flags, i) ==
    IF i > Len(flags) THEN <<>>
    ELSE (IF flags[i] THEN <<i>> ELSE <<>>) \o IndicesWhere(flags, i + 1)

\* only_these_lines = None
only_these_lines == None

\* the lines farther than 2 pixels from every position of ids are dropped,
\* when there is a list ids
RestrictToIDs(pk, aduse, ids) ==
    IF ids = None THEN aduse
    ELSE [i \in DOMAIN pk |->
             /\ aduse[i]
             /\ \E j \in DOMAIN ids.val :
                   Abs(pk[i].pos - ids.val[j]) <= HalfPix(2)]

SelectLines(pk) ==
    LET olduse == Candidates(pk)
    IN RestrictToIDs(pk, SuppressLoop(pk, IndicesWhere(olduse, 1), olduse),
                     only_these_lines)

nlines(pk) == Len(IndicesWhere(SelectLines(pk), 1))

(***************************************************************************)
(* The trace windows of _trace_tilts: one window of spatial rows per       *)
(* selected line, around the rounded centre of the slit.  The edges of a   *)
(* slit are whole pixels and the same on every spectral row.               *)
(***************************************************************************)
Max(a, b) == IF a >= b THEN a ELSE b
Min(a, b) == IF a <= b THEN a ELSE b

\* np.round of twice/2: halves go to the even neighbour
RoundHalfEven(twice) ==
    IF twice % 2 = 0 THEN twice \div 2
    ELSE LET k == (twice - 1) \div 2
         IN IF k % 2 = 0 THEN k ELSE k + 1

\* trace_int: half of slit_widp2 = int(ceil(max(right - left)) + 2) made even
trace_int(edge) ==
    LET slit_widp2 == (edge[2] - edge[1]) + 2
        trace_int_even == IF slit_widp2 % 2 = 0 THEN slit_widp2
                          ELSE slit_widp2 + 1
    IN trace_int_even \div 2

\* lines_spat_int: np.round of the slit centre (left + right)/2
lines_spat_int(edge) == RoundHalfEven(edge[1] + edge[2])

\* the rows a[lo:hi] selects of an axis of n rows
PySlice(lo, hi, n) ==
    LET norm(i) == IF i < 0 THEN Max(i + n, 0) ELSE Min(i, n)
    IN {r \in 0 .. (n - 1) : norm(lo) <= r /\ r < norm(hi)}

\* a[...] = b for one axis, a of len_a and b of len_b rows
AssignOK(len_a, len_b) == len_b = len_a \/ len_b = 1

\* trace_slits.trace_crude_init on a sub-image without rows fails
CrudeInitFails(rows) == rows = {}

\* one pass of the loop over the selected lines: spat_min, spat_max, the rows
\* of tilts_mask it sets, and the error that ends it
TraceWindow(edge, nspat) ==
    LET c == lines_spat_int(edge)
        h == trace_int(edge)
        nsub == (2 * h) + 1
        spat_min == c - h
        spat_max == c + h + 1
        rows == PySlice(Max(spat_min, 0), Min(spat_max, nspat - 1), nspat)
        now == Cardinality(rows)
        sub == IF spat_min < 0 THEN PySlice(-spat_min, nsub, nsub)
               ELSE IF spat_max > nspat - 1
                    THEN PySlice(0, -(spat_max - nspat + 1), nsub)
                    ELSE PySlice(0, nsub, nsub)
        nsubrows == Cardinality(sub)
        ok == AssignOK(nsubrows, now) /\ AssignOK(now, nsubrows)
    IN [spat_min |-> spat_min, spat_max |-> spat_max,
        error |-> IF CrudeInitFails(rows) THEN "trace_crude_init"
                  ELSE IF ~ok THEN "ValueError" ELSE "none",
        valid |-> IF CrudeInitFails(rows) \/ ~ok THEN {} ELSE rows]

NoWindow == [spat_min |-> 0, spat_max |-> 0, error |-> "none", valid |-> {}]

(***************************************************************************)
(* Collaborators.                                                          *)
(***************************************************************************)
\* spectrograph.slitmask: slit s owns column s, the last column is no slit's
SlitMaskImage == [p \in Pixels |-> IF p[2] < nslit THEN p[2] ELSE -1]

\* slit s lies between columns s and s + 1
ColumnEdges == [s \in Slits |-> <<s, s + 1>>]

\* the arc lines arc.detect_lines finds in a slit's spectrum
NoLinePeaks == << [pos |-> HalfPix(100), nsig |-> 8] >>
OneLinePeaks == << [pos |-> HalfPix(100), nsig |-> 12] >>
PeakCases == {NoLinePeaks, OneLinePeaks}

\* tracewave.analyze_lines and tracewave.fit_tilts: deterministic in their
\* inputs; env.extfail names the one call that fails on this exposure
StageFails(stage, slit) == env.extfail = <<stage, slit>>
ttilts_of(slit) == [slit |-> slit]
fit_image(slit) == [p \in Pixels |-> <<slit + 1, 1>>]
\* one slice [:,:,slit] of np.zeros((order + 2, yorder + 1, nslit))
ZeroSlice == [ij \in (0 .. (par.order + 1)) \X (0 .. par.yorder) |-> 0]
fit_coeffs(slit) == [ij \in DOMAIN ZeroSlice |-> slit + 1]

(***************************************************************************)
(* run                                                                     *)
(***************************************************************************)
\* np.linspace(0.0, 1.0, n, endpoint=False)
linspace01_open(n) == [r \in 0 .. (n - 1) |-> <<r, n>>]

\* np.linspace(0.0, 1.0, n)
linspace01(n) ==
    [r \in 0 .. (n - 1) |->
        IF n = 1 THEN Zero
        ELSE IF r = n - 1 THEN <<1, 1>>
        ELSE <<r, n - 1>>]

\* np.outer(np.linspace(0.0, 1.0, nspec), np.ones(nspat))
ZeroTilts == [p \in Pixels |-> linspace01(msarc.nspec)[p[1]]]

\* maskslits = np.zeros(self.nslit, dtype=bool) when None is passed
MaskArg == IF maskslits = None THEN [s \in Slits |-> FALSE] ELSE maskslits.val

\* self.mask = maskslits & (self.arc_maskslit==1)
MaskOf(ms, arcmask) == [s \in DOMAIN ms |-> ms[s] /\ (arcmask[s] = 1)]

\* gdslits = np.where(self.mask == 0)[0]
RECURSIVE WhereZero(_, _, _)
WhereZero(m, s, n) ==
    IF s >= n THEN <<>>
    ELSE (IF ~m[s] THEN <<s>> ELSE <<>>) \o WhereZero(m, s + 1, n)

slit == gdslits[cursor]

Outputs == [final_tilts |-> final_tilts, coeffs |-> coeffs, mask |-> mask,
            steps |-> steps]

Raise(e) ==
    /\ pc' = "raised"
    /\ exc' = Some(e)
    /\ ret' = None

\* the arc_maskslit arc.get_censpec returns: 1 where the extraction failed
ArcMaskSlit == [s \in Slits |-> IF env.arcfail[s] THEN 1 ELSE 0]

\* the zero branch of run, logging itself in steps
RunZeroLogged ==
    /\ final_tilts' = Some(ZeroTilts)
    /\ steps' = Append(steps, "run")
    /\ ret' = Some(<<"final_tilts", "None", "None">>)
    /\ pc' = "done"
    /\ exc' = None
    /\ UNCHANGED <<coeffs, mask, all_trcdict, all_ttilts, tilts,
                   tilts_dict, slitmask, arc_maskslit, gdslits, cursor, trace>>

\* the zero branch of run
RunZero ==
    /\ final_tilts' = Some(ZeroTilts)
    /\ ret' = Some(<<"final_tilts", "None", "None">>)
    /\ pc' = "done"
    /\ exc' = None
    /\ UNCHANGED <<coeffs, mask, steps, all_trcdict, all_ttilts, tilts,
                   tilts_dict, slitmask, arc_maskslit, gdslits, cursor, trace>>

\* run up to the loop on the slits, the loop being over gd
RunSetup(gd) ==
    /\ slitmask' = Some(SlitMaskImage)
    /\ arc_maskslit' = Some(ArcMaskSlit)
    /\ steps' = Append(steps, "_extract_arcs")
    /\ mask' = Some(MaskOf(MaskArg, arc_maskslit'.val))
    /\ gdslits' = gd
    /\ cursor' = 1
    /\ final_tilts' = Some([p \in Pixels |-> Zero])
    /\ coeffs' = Some([s \in Slits |-> ZeroSlice])
    /\ pc' = IF gd = <<>> THEN "finish" ELSE "trace"
    /\ exc' = None
    /\ ret' = None
    /\ UNCHANGED <<all_trcdict, all_ttilts, tilts, tilts_dict, trace>>

\* tracethresh as _trace_tilts reads it from self.par for a slit
ConfiguredThresh(s) ==
    IF par.tracethresh = "number" THEN par.threshnum ELSE par.threshlist[s]

\* a call of run whose loop is over gd
RunCall(gd) ==
    /\ pc \in {"idle", "done", "raised"}
    /\ run_count < MaxRuns
    /\ run_count' = run_count + 1
    /\ calls' = <<>>
    /\ entry' = Some(Outputs)
    /\ prev' = IF run_count = 0 THEN None
               ELSE Some([final_tilts |-> final_tilts, coeffs |-> coeffs])
    /\ IF Lower(par.method) = "zero" THEN RunZero ELSE RunSetup(gd)
    /\ UNCHANGED <<inputs, store, slit_pc, build>>

\* run with gdslits taken from the mask the previous call left
RunEnterStaleMask ==
    RunCall(IF mask = None THEN <<>> ELSE WhereZero(mask.val, 0, nslit))

RunEnter == RunCall(WhereZero(MaskOf(MaskArg, ArcMaskSlit), 0, nslit))

\* _trace_tilts(slit)
TraceTilts ==
    /\ pc = "trace"
    /\ calls' = Append(calls, <<"_trace_tilts", slit>>)
    /\ trace' = IF par.tracethresh \notin {"number", "list"} THEN None
                ELSE Some([slit |-> slit, peaks |-> env.peaks[slit],
                           thresh_in |-> ConfiguredThresh(slit),
                           olduse |-> Candidates(env.peaks[slit]),
                           aduse |-> SelectLines(env.peaks[slit]),
                           window |-> IF nlines(env.peaks[slit]) = 0 THEN NoWindow
                                      ELSE TraceWindow(env.edges[slit],
                                                       msarc.nspat)])
    /\ IF par.tracethresh \notin {"number", "list"}
       THEN Raise("ValueError")
       ELSE IF nlines(env.peaks[slit]) = 0
            THEN /\ pc' = "analyze"
                 /\ UNCHANGED <<exc, ret>>
            ELSE IF trace'.val.window.error # "none"
                 THEN Raise(trace'.val.window.error)
                 ELSE Raise("NameError")
    /\ UNCHANGED <<final_tilts, coeffs, mask, steps, all_trcdict, all_ttilts,
                   tilts, tilts_dict, slitmask, arc_maskslit, gdslits, cursor,
                   run_count, entry, prev>>
    /\ UNCHANGED <<inputs, store, slit_pc, build>>

\* _analyze_lines(slit)
AnalyzeLines ==
    /\ pc = "analyze"
    /\ calls' = Append(calls, <<"_analyze_lines", slit>>)
    /\ IF StageFails("analyze", slit)
       THEN /\ Raise("analyze_lines")
            /\ UNCHANGED <<all_ttilts, steps>>
       ELSE /\ all_ttilts' = [all_ttilts EXCEPT ![slit] = Some(ttilts_of(slit))]
            /\ steps' = Append(steps, "_analyze_lines")
            /\ pc' = "fit"
            /\ UNCHANGED <<exc, ret>>
    /\ UNCHANGED <<final_tilts, coeffs, mask, all_trcdict, tilts, tilts_dict,
                   slitmask, arc_maskslit, gdslits, cursor, run_count, entry,
                   prev, trace>>
    /\ UNCHANGED <<inputs, store, slit_pc, build>>

\* self.tilts, self.coeffs[:,:,slit] = self._fit_tilts(slit, doqa=doqa)
FitTilts ==
    /\ pc = "fit"
    /\ calls' = Append(calls, <<"_fit_tilts", slit>>)
    /\ IF StageFails("fit", slit)
       THEN /\ Raise("fit_tilts")
            /\ UNCHANGED <<tilts, coeffs, steps>>
       ELSE /\ tilts' = Some(fit_image(slit))
            /\ steps' = Append(steps, "_fit_tilts")
            /\ coeffs' = Some([coeffs.val EXCEPT ![slit] = fit_coeffs(slit)])
            /\ pc' = "save"
            /\ UNCHANGED <<exc, ret>>
    /\ UNCHANGED <<final_tilts, mask, all_trcdict, all_ttilts, tilts_dict,
                   slitmask, arc_maskslit, gdslits, cursor, run_count, entry,
                   prev, trace>>
    /\ UNCHANGED <<inputs, store, slit_pc, build>>

\* self.final_tilts = self.tilts
SaveWholeFrame(final, image, smask, s) == image

\* word = self.slitmask == slit;  self.final_tilts[word] = self.tilts[word]
SaveToFinal(final, image, smask, s) ==
    [p \in DOMAIN final |-> IF smask[p] = s THEN image[p] ELSE final[p]]

WriteBack ==
    /\ pc = "save"
    /\ calls' = Append(calls, <<"save", slit>>)
    /\ final_tilts' = Some(SaveToFinal(final_tilts.val, tilts.val, slitmask.val, slit))
    /\ cursor' = cursor + 1
    /\ pc' = IF cursor = Len(gdslits) THEN "finish" ELSE "trace"
    /\ UNCHANGED <<coeffs, mask, steps, all_trcdict, all_ttilts, tilts,
                   tilts_dict, slitmask, arc_maskslit, gdslits, ret, exc,
                   run_count, entry, prev, trace>>
    /\ UNCHANGED <<inputs, store, slit_pc, build>>

\* the end of run: tilts_dict and the return
RunFinish ==
    /\ pc = "finish"
    /\ tilts_dict' = Some([tilts |-> final_tilts.val, coeffs |-> coeffs.val,
                           func2D |-> par.func2D])
    /\ ret' = Some(<<"tilts_dict", "maskslits">>)
    /\ pc' = "done"
    /\ UNCHANGED <<final_tilts, coeffs, mask, steps, all_trcdict, all_ttilts,
                   tilts, slitmask, arc_maskslit, gdslits, cursor, exc,
                   run_count, calls, entry, prev, trace>>
    /\ UNCHANGED <<inputs, store, slit_pc, build>>

ExtFails(n) ==
    {<<"none", -1>>} \cup ({"analyze", "fit"} \X (0 .. (n - 1)))

FreshObject ==
    /\ final_tilts = None
    /\ coeffs = None
    /\ mask = None
    /\ steps = <<>>
    /\ all_trcdict = [s \in Slits |-> None]
    /\ all_ttilts = [s \in Slits |-> None]
    /\ tilts = None
    /\ tilts_dict = None
    /\ slitmask = None
    /\ arc_maskslit = None
    /\ pc = "idle"
    /\ gdslits = <<>>
    /\ cursor = 1
    /\ ret = None
    /\ exc = None
    /\ trace = None
    /\ run_count = 0
    /\ calls = <<>>
    /\ entry = None
    /\ prev = None
    /\ slit_pc = [s \in Slits |-> "idle"]

NoFile ==
    /\ disk = None
    /\ io = <<>>
    /\ loaded = None
    /\ io_count = 0

\* buildimage_fromlist has not been called
NoBuild ==
    build = [det |-> [tuple |-> FALSE, ids |-> <<1>>], frametype |-> "arc",
             par_ok |-> TRUE, mosaic_arg |-> None, status |-> "idle",
             mosaic |-> None, cls |-> "None"]

\* The exposures and configurations run is called with.  Outside the zero
\* mode run treats every spectral row alike, so there the exposures have 1 or
\* MaxSpec rows; a method run does not know is run like "spca", and "ZERO"
\* like "zero", so each comes with one kind of tracethresh; the zero mode
\* calls no stage, so no stage is set to fail in it.
Init ==
    /\ nslit \in 0 .. MaxSlits
    /\ \E n \in 1 .. MaxSpec, m \in Methods, t \in ThreshKinds :
           /\ Lower(m) # "zero" => n \in {1, MaxSpec}
           /\ m \in {"bogus", "ZERO"} => t = "number"
           /\ msarc = [nspec |-> n, nspat |-> nslit + 1]
           /\ par = [method |-> m, tracethresh |-> t, func2D |-> "legendre",
                     order |-> 0, yorder |-> 2,
                     threshnum |-> 10, threshlist |-> [s \in Slits |-> 10]]
    /\ maskslits \in {None} \cup {Some(m) : m \in [Slits -> BOOLEAN]}
    /\ \E af \in [Slits -> BOOLEAN], pk \in [Slits -> PeakCases],
          xf \in ExtFails(nslit) :
           env = [arcfail |-> af, peaks |-> pk, extfail |-> xf,
                  edges |-> ColumnEdges, wv_calib |-> None]
    /\ Lower(par.method) = "zero" => env.extfail = <<"none", -1>>
    /\ FreshObject
    /\ NoFile
    /\ NoBuild

Next ==
    \/ RunEnter
    \/ TraceTilts
    \/ AnalyzeLines
    \/ FitTilts
    \/ WriteBack
    \/ RunFinish

Spec == Init /\ [][Next]_vars

(***************************************************************************)
(* The loop of run with the iterations of the slits interleaved: every     *)
(* slit of gdslits goes through the four steps of the loop body on its own,*)
(* all of them on the one object.                                          *)
(***************************************************************************)
Excluded(gd, s) == \A i \in DOMAIN gd : gd[i] # s

ParEnter ==
    /\ pc = "idle"
    /\ run_count' = run_count + 1
    /\ calls' = <<>>
    /\ entry' = Some(Outputs)
    /\ prev' = None
    /\ RunSetup(WhereZero(MaskOf(MaskArg, ArcMaskSlit), 0, nslit))
    /\ slit_pc' = [s \in Slits |->
                    IF Excluded(gdslits', s) THEN "excluded" ELSE "trace"]
    /\ UNCHANGED <<inputs, store, build>>

\* the step of slit s has raised
ParRaise(s, e) ==
    /\ slit_pc' = [slit_pc EXCEPT ![s] = "raised"]
    /\ exc' = Some(e)

\* _ = self._trace_tilts(slit, wv_calib=wv_calib)
ParTrace(s) ==
    /\ pc \in {"trace", "finish"}
    /\ slit_pc[s] = "trace"
    /\ calls' = Append(calls, <<"_trace_tilts", s>>)
    /\ trace' = IF par.tracethresh \notin {"number", "list"} THEN None
                ELSE Some([slit |-> s, peaks |-> env.peaks[s],
                           thresh_in |-> ConfiguredThresh(s),
                           olduse |-> Candidates(env.peaks[s]),
                           aduse |-> SelectLines(env.peaks[s]),
                           window |-> IF nlines(env.peaks[s]) = 0 THEN NoWindow
                                      ELSE TraceWindow(env.edges[s],
                                                       msarc.nspat)])
    /\ IF par.tracethresh \notin {"number", "list"}
       THEN ParRaise(s, "ValueError")
       ELSE IF nlines(env.peaks[s]) = 0
            THEN /\ slit_pc' = [slit_pc EXCEPT ![s] = "analyze"]
                 /\ UNCHANGED exc
            ELSE IF trace'.val.window.error # "none"
                 THEN ParRaise(s, trace'.val.window.error)
                 ELSE ParRaise(s, "NameError")
    /\ UNCHANGED <<final_tilts, coeffs, mask, steps, all_trcdict, all_ttilts,
                   tilts, tilts_dict, slitmask, arc_maskslit, gdslits, cursor,
                   run_count, entry, prev, pc, ret>>
    /\ UNCHANGED <<inputs, store, build>>

\* _ = self._analyze_lines(slit)
ParAnalyze(s) ==
    /\ slit_pc[s] = "analyze"
    /\ calls' = Append(calls, <<"_analyze_lines", s>>)
    /\ IF StageFails("analyze", s)
       THEN /\ ParRaise(s, "analyze_lines")
            /\ UNCHANGED <<all_ttilts, steps>>
       ELSE /\ all_ttilts' = [all_ttilts EXCEPT ![s] = Some(ttilts_of(s))]
            /\ steps' = Append(steps, "_analyze_lines")
            /\ slit_pc' = [slit_pc EXCEPT ![s] = "fit"]
            /\ UNCHANGED exc
    /\ UNCHANGED <<final_tilts, coeffs, mask, all_trcdict, tilts, tilts_dict,
                   slitmask, arc_maskslit, gdslits, cursor, run_count, entry,
                   prev, trace, pc, ret>>
    /\ UNCHANGED <<inputs, store, build>>

\* self.tilts, self.coeffs[:,:,slit] = self._fit_tilts(slit, doqa=doqa)
ParFit(s) ==
    /\ slit_pc[s] = "fit"
    /\ calls' = Append(calls, <<"_fit_tilts", s>>)
    /\ IF StageFails("fit", s)
       THEN /\ ParRaise(s, "fit_tilts")
            /\ UNCHANGED <<tilts, coeffs, steps>>
       ELSE /\ tilts' = Some(fit_image(s))
            /\ steps' = Append(steps, "_fit_tilts")
            /\ coeffs' = Some([coeffs.val EXCEPT ![s] = fit_coeffs(s)])
            /\ slit_pc' = [slit_pc EXCEPT ![s] = "save"]
            /\ UNCHANGED exc
    /\ UNCHANGED <<final_tilts, mask, all_trcdict, all_ttilts, tilts_dict,
                   slitmask, arc_maskslit, gdslits, cursor, run_count, entry,
                   prev, trace, pc, ret>>
    /\ UNCHANGED <<inputs, store, build>>

\* word = self.slitmask == slit;  self.final_tilts[word] = self.tilts[word]
ParWriteBack(s) ==
    /\ slit_pc[s] = "save"
    /\ calls' = Append(calls, <<"save", s>>)
    /\ final_tilts' = Some(SaveToFinal(final_tilts.val, tilts.val, slitmask.val, s))
    /\ slit_pc' = [slit_pc EXCEPT ![s] = "done"]
    /\ UNCHANGED <<coeffs, mask, steps, all_trcdict, all_ttilts, tilts,
                   tilts_dict, slitmask, arc_maskslit, gdslits, cursor, ret,
                   exc, run_count, entry, prev, trace, pc>>
    /\ UNCHANGED <<inputs, store, build>>

\* the end of run once every iteration has ended
ParFinish ==
    /\ pc \in {"trace", "finish"}
    /\ \A s \in Slits : slit_pc[s] \in {"excluded", "done", "raised"}
    /\ IF \E s \in Slits : slit_pc[s] = "raised"
       THEN /\ pc' = "raised"
            /\ UNCHANGED <<tilts_dict, ret>>
       ELSE /\ tilts_dict' = Some([tilts |-> final_tilts.val,
                                   coeffs |-> coeffs.val,
                                   func2D |-> par.func2D])
            /\ ret' = Some(<<"tilts_dict", "maskslits">>)
            /\ pc' = "done"
    /\ UNCHANGED <<final_tilts, coeffs, mask, steps, all_trcdict, all_ttilts,
                   tilts, slitmask, arc_maskslit, gdslits, cursor, exc,
                   run_count, calls, entry, prev, trace, slit_pc>>
    /\ UNCHANGED <<inputs, store, build>>

InitPar ==
    /\ nslit \in 0 .. MaxSlits
    /\ msarc = [nspec |-> 1, nspat |-> nslit + 1]
    /\ par = [method |-> "spca", tracethresh |-> "number", func2D |-> "legendre",
                  order |-> 0, yorder |-> 2,
                  threshnum |-> 10, threshlist |-> [s \in Slits |-> 10]]
    /\ maskslits = None
    /\ \E af \in [Slits -> BOOLEAN], pk \in [Slits -> PeakCases],
          xf \in ExtFails(nslit) :
           env = [arcfail |-> af, peaks |-> pk, extfail |-> xf,
                  edges |-> ColumnEdges, wv_calib |-> None]
    /\ FreshObject
    /\ NoFile
    /\ NoBuild

NextPar ==
    \/ ParEnter
    \/ \E s \in Slits : ParTrace(s)
    \/ \E s \in Slits : ParAnalyze(s)
    \/ \E s \in Slits : ParFit(s)
    \/ \E s \in Slits : ParWriteBack(s)
    \/ ParFinish

SpecPar == InitPar /\ [][NextPar]_vars

\* what the loop of run leaves when it takes the slits of gd one after the
\* other, from position i on
RECURSIVE LoopFinal(_, _, _)
LoopFinal(gd, i, final) ==
    IF i > Len(gd) THEN final
    ELSE LoopFinal(gd, i + 1,
                   SaveToFinal(final, fit_image(gd[i]), SlitMaskImage, gd[i]))

RECURSIVE LoopCoeffs(_, _, _)
LoopCoeffs(gd, i, co) ==
    IF i > Len(gd) THEN co
    ELSE LoopCoeffs(gd, i + 1, [co EXCEPT ![gd[i]] = fit_coeffs(gd[i])])

(***************************************************************************)
(* run on one slit, over the arc-line lists arc.detect_lines may return:   *)
(* detections in ascending position at 100.0, 100.5, 102.0, 115.0 and      *)
(* 116.0 pixels, of significance 8, 10 or 12.                              *)
(***************************************************************************)
PeakPositions ==
    {HalfPix(100), HalfPix(100) + 1, HalfPix(102), HalfPix(115), HalfPix(116)}
SigLevels == {8, 10, 12}
Peaks == [pos : PeakPositions, nsig : SigLevels]
PeakLists ==
    UNION {{pk \in [1 .. k -> Peaks] :
               \A i \in 1 .. (k - 1) : pk[i].pos < pk[i + 1].pos} :
           k \in 0 .. MaxPeaks}

\* the wv_calib argument of run: none, or identified lines at 100.0 pixels,
\* or at 100.0 and 116.0 pixels
ExpectedLists == {None, Some(<<HalfPix(100)>>),
                  Some(<<HalfPix(100), HalfPix(116)>>)}

InitSel ==
    /\ nslit = 1
    /\ msarc = [nspec |-> 1, nspat |-> 2]
    /\ \E t \in {"number", "list"} :
           par = [method |-> "spca", tracethresh |-> t, func2D |-> "legendre",
                  order |-> 0, yorder |-> 2,
                  threshnum |-> 10, threshlist |-> [s \in Slits |-> 10]]
    /\ maskslits = None
    /\ \E pk \in PeakLists, xf \in ExtFails(1), wv \in ExpectedLists :
           env = [arcfail |-> [s \in Slits |-> FALSE],
                  peaks |-> [s \in Slits |-> pk], extfail |-> xf,
                  edges |-> ColumnEdges, wv_calib |-> wv]
    /\ FreshObject
    /\ NoFile
    /\ NoBuild

SpecSel == InitSel /\ [][Next]_vars

(***************************************************************************)
(* run on one slit, over the positions and widths of the slit (its centre  *)
(* on the detector) on detectors of 2 to MaxSpat spatial rows.             *)
(***************************************************************************)
MaxSpat == 10
MaxWidth == 12

InitWin ==
    /\ nslit = 1
    /\ \E n \in 2 .. MaxSpat : msarc = [nspec |-> 1, nspat |-> n]
    /\ par = [method |-> "spca", tracethresh |-> "number", func2D |-> "legendre",
              order |-> 0, yorder |-> 2,
              threshnum |-> 10, threshlist |-> [s \in Slits |-> 10]]
    /\ maskslits = None
    /\ \E left \in -3 .. (msarc.nspat - 1), w \in 1 .. MaxWidth, pk \in PeakCases :
           /\ 0 <= left + (left + w)
           /\ left + (left + w) <= 2 * (msarc.nspat - 1)
           /\ env = [arcfail |-> [s \in Slits |-> FALSE],
                     peaks |-> [s \in Slits |-> pk],
                     extfail |-> <<"none", -1>>,
                     edges |-> [s \in Slits |-> <<left, left + w>>],
                     wv_calib |-> None]
    /\ FreshObject
    /\ NoFile
    /\ NoBuild

SpecWin == InitWin /\ [][Next]_vars

(***************************************************************************)
(* run over the configurations of tracethresh: a number or a list with one *)
(* entry per slit, each slit with one detected line.                       *)
(***************************************************************************)
SinglePeaks == {<< [pos |-> HalfPix(100), nsig |-> n] >> : n \in SigLevels}

InitThresh ==
    /\ nslit \in 1 .. MaxSlits
    /\ msarc = [nspec |-> 1, nspat |-> nslit + 1]
    /\ \E t \in {"number", "list"}, v \in SigLevels, l \in [Slits -> SigLevels] :
           par = [method |-> "spca", tracethresh |-> t, func2D |-> "legendre",
                  order |-> 0, yorder |-> 2, threshnum |-> v, threshlist |-> l]
    /\ maskslits = None
    /\ \E pk \in [Slits -> SinglePeaks] :
           env = [arcfail |-> [s \in Slits |-> FALSE], peaks |-> pk,
                  extfail |-> <<"none", -1>>,
              edges |-> ColumnEdges, wv_calib |-> None]
    /\ FreshObject
    /\ NoFile
    /\ NoBuild

SpecThresh == InitThresh /\ [][Next]_vars

(***************************************************************************)
(* The master file: save_master, load_master, from_master_files.           *)
(***************************************************************************)
\* the padding value -9999999.9, in whole units
Sentinel == -9999999

SeqMax(q) == CHOOSE m \in {q[i] : i \in DOMAIN q} : \A i \in DOMAIN q : q[i] <= m
SizeOf(x) == IF x = None THEN 0 ELSE Len(x.val)
Pad(q, n) == q \o [i \in 1 .. (n - Len(q)) |-> Sentinel]

\* all_ttilts[slit][1][int(xgd), kk] of tracewave.analyze_lines
ycen_lookup(tt, xgd, kk) == 1000 + (100 * tt.slit) + (10 * kk) + xgd

\* xgd, ycen of line kk (counted from 1) as save_master computes them
YCen(tt, td, kk) ==
    LET xt == td.xtfit[kk].val
        xgd == xt[(Len(xt) \div 2) + 1]
    IN ycen_lookup(tt, xgd, kk - 1)

\* model_cnt when the loop of save_master reaches line kk
ModelCnt(td, kk) ==
    Cardinality({j \in 1 .. (kk - 1) : td.xtfit[j] # None /\ td.aduse[j]})

\* fwm_img of one slit: per line the four channels, each maxx+1 rows
EncodeFWM(td, tt) ==
    LET narc == Len(td.xtfit)
        maxx == SeqMax([k \in 1 .. narc |-> SizeOf(td.xtfit[k])])
        rows == maxx + 1
        blank == Pad(<<>>, rows)
        used(k) == td.xtfit[k] # None /\ td.aduse[k]
        chan1(k) == LET filled == Pad(td.ytfit[k].val, rows)
                    IN IF td.aduse[k]
                       THEN [filled EXCEPT ![rows] = YCen(tt, td, k)]
                       ELSE filled
    IN [k \in 1 .. narc |->
           IF td.xtfit[k] = None THEN <<blank, blank, blank, blank>>
           ELSE << Pad(td.xtfit[k].val, rows),
                   chan1(k),
                   IF used(k) THEN Pad(td.xmodel[ModelCnt(td, k) + 1], rows)
                   ELSE blank,
                   IF used(k) THEN Pad(td.ymodel[ModelCnt(td, k) + 1], rows)
                   ELSE blank >>]

\* the FWM extensions, one per slit whose mask entry is false, in slit order
RECURSIVE FWMExtensions(_)
FWMExtensions(s) ==
    IF s >= nslit THEN <<>>
    ELSE (IF mask.val[s] THEN <<>>
          ELSE << [slit |-> s,
                   data |-> EncodeFWM(all_trcdict[s].val, all_ttilts[s].val)] >>)
         \o FWMExtensions(s + 1)

\* a slit on which the loop of save_master raises
SaveRaisesOn(s) ==
    /\ ~mask.val[s]
    /\ \/ all_trcdict[s] = None
       \/ /\ all_ttilts[s] = None
          /\ \E k \in DOMAIN all_trcdict[s].val.xtfit :
                /\ all_trcdict[s].val.xtfit[k] # None
                /\ all_trcdict[s].val.aduse[k]

SaveResult ==
    IF final_tilts = None THEN [status |-> "returned", file |-> disk]
    ELSE IF nslit > 0 /\ (mask = None \/ \E s \in Slits : SaveRaisesOn(s))
    THEN [status |-> "raised", file |-> disk]
    ELSE [status |-> "returned",
          file |-> Some([tilts |-> final_tilts.val,
                         coeffs |-> coeffs,
                         func2D |-> par.func2D,
                         fwm |-> IF nslit = 0 THEN <<>> ELSE FWMExtensions(0)])]

Resting == pc \in {"idle", "done", "raised"}

save_master ==
    /\ Resting
    /\ io_count < MaxIO
    /\ io_count' = io_count + 1
    /\ disk' = SaveResult.file
    /\ io' = Append(io, [op |-> "save_master", run |-> run_count, force |-> FALSE,
                         found |-> disk # None,
                         status |-> SaveResult.status, ret |-> None])
    /\ UNCHANGED <<inputs, object, build, loaded>>

\* msgs.error raises
MsgsErrorRaises == TRUE

\* load_master reading coeffs from hdu[0]
LoadResultPrimaryOnly(force, file) ==
    IF file = None
    THEN IF force /\ MsgsErrorRaises
         THEN [status |-> "raised", ret |-> None]
         ELSE [status |-> "returned", ret |-> None]
    ELSE [status |-> "returned",
          ret |-> Some([tilts |-> file.val.tilts,
                        coeffs |-> Some(file.val.tilts),
                        func2D |-> file.val.func2D])]

LoadResult(force, file) ==
    IF file = None
    THEN IF force /\ MsgsErrorRaises
         THEN [status |-> "raised", ret |-> None]
         ELSE [status |-> "returned", ret |-> None]
    ELSE [status |-> "returned",
          ret |-> Some([tilts |-> file.val.tilts,
                        coeffs |-> file.val.coeffs,
                        func2D |-> file.val.func2D])]

load_master(force) ==
    /\ Resting
    /\ io_count < MaxIO
    /\ io_count' = io_count + 1
    /\ io' = Append(io, [op |-> "load_master", run |-> run_count, force |-> force,
                         found |-> disk # None,
                         status |-> LoadResult(force, disk).status,
                         ret |-> LoadResult(force, disk).ret])
    /\ UNCHANGED <<inputs, object, build, disk, loaded>>

\* the rebuilt trace dictionary with a model entry for every line
DecodeFWMAllModels(img) ==
    LET narc == Len(img)
        body(k, c) == SubSeq(img[k][c], 1, Len(img[k][c]) - 1)
        last(k, c) == img[k][c][Len(img[k][c])]
        use == [k \in 1 .. narc |-> \E r \in DOMAIN body(k, 3) : body(k, 3)[r] > 0]
    IN [xtfit |-> [k \in 1 .. narc |-> body(k, 1)],
        ytfit |-> [k \in 1 .. narc |-> body(k, 2)],
        ycen |-> [k \in 1 .. narc |-> last(k, 2)],
        xmodel |-> [k \in 1 .. narc |-> body(k, 3)],
        ymodel |-> [k \in 1 .. narc |-> body(k, 4)],
        aduse |-> use]

\* the trace dictionary from_master_files rebuilds from one FWM image
DecodeFWM(img) ==
    LET narc == Len(img)
        body(k, c) == SubSeq(img[k][c], 1, Len(img[k][c]) - 1)
        last(k, c) == img[k][c][Len(img[k][c])]
        use == [k \in 1 .. narc |-> \E r \in DOMAIN body(k, 3) : body(k, 3)[r] > 0]
        usable == IndicesWhere(use, 1)
    IN [xtfit |-> [k \in 1 .. narc |-> body(k, 1)],
        ytfit |-> [k \in 1 .. narc |-> body(k, 2)],
        ycen |-> [k \in 1 .. narc |-> last(k, 2)],
        xmodel |-> [m \in DOMAIN usable |-> body(usable[m], 3)],
        ymodel |-> [m \in DOMAIN usable |-> body(usable[m], 4)],
        aduse |-> use]

\* slf.all_trcdict after the loop over hdul[2:]
DecodeExtensions(fwm) ==
    [i \in DOMAIN fwm |->
        IF fwm[i].slit = i - 1 THEN Some(DecodeFWM(fwm[i].data)) ELSE None]

from_master_files ==
    /\ Resting
    /\ io_count < MaxIO
    /\ io_count' = io_count + 1
    /\ \E arc_loaded \in BOOLEAN, hdu_attr \in BOOLEAN :
          LET ok == arc_loaded /\ disk # None /\ hdu_attr
          IN /\ loaded' = IF ok
                          THEN Some([final_tilts |-> disk.val.tilts,
                                     tilts |-> disk.val.tilts,
                                     all_trcdict |-> DecodeExtensions(disk.val.fwm)])
                          ELSE None
             /\ io' = Append(io, [op |-> "from_master_files", run |-> run_count, force |-> FALSE,
                                  found |-> disk # None,
                                  status |-> IF ok THEN "returned" ELSE "raised",
                                  ret |-> None])
    /\ UNCHANGED <<inputs, object, build, disk>>

(***************************************************************************)
(* Objects whose slits have been traced: the trace dictionaries            *)
(* tracewave.trace_tilt returns, with lines of several lengths.            *)
(***************************************************************************)
LineLengths == {1, 3, 5, 9}
LineShapes == ((LineLengths \X BOOLEAN) \cup {<<0, FALSE>>})

\* usable lines at the edge of the frame: one traced at x = 0, one at -2, -1, 0
EdgeShapes == {<<1, TRUE, -1>>, <<3, TRUE, -3>>}

TrcDict(shape) ==
    LET narc == Len(shape)
        traced(k) == shape[k][1] > 0
        use == [k \in 1 .. narc |-> shape[k][2]]
        usable == IndicesWhere(use, 1)
        x0(k) == IF Len(shape[k]) = 3 THEN shape[k][3] ELSE 10 * k
        xs(k) == [i \in 1 .. shape[k][1] |-> x0(k) + i]
    IN [xtfit |-> [k \in 1 .. narc |-> IF traced(k) THEN Some(xs(k)) ELSE None],
        ytfit |-> [k \in 1 .. narc |->
                      IF traced(k)
                      THEN Some([i \in 1 .. shape[k][1] |-> (100 * k) + i])
                      ELSE None],
        xmodel |-> [m \in DOMAIN usable |-> xs(usable[m])],
        ymodel |-> [m \in DOMAIN usable |->
                       [i \in 1 .. shape[usable[m]][1] |-> (100 * usable[m]) + 50 + i]],
        aduse |-> use]

TrcDicts == {TrcDict(sh) : sh \in UNION {[1 .. n -> LineShapes] : n \in 1 .. MaxLines}}
TrcDictsEdge ==
    {TrcDict(sh) : sh \in UNION {[1 .. n -> LineShapes \cup EdgeShapes] :
                                    n \in 1 .. 2}}
TrcDictsFew == {TrcDict(<< <<5, TRUE>>, <<9, FALSE>>, <<3, TRUE>> >>),
                TrcDict(<< <<3, TRUE>> >>)}

TracedObject ==
    /\ final_tilts = Some([p \in Pixels |-> <<SlitMaskImage[p] + 1, 1>>])
    /\ coeffs = Some([s \in Slits |-> fit_coeffs(s)])
    /\ mask \in {Some(m) : m \in [Slits -> BOOLEAN]}
    /\ steps = <<>>
    /\ all_trcdict \in [Slits -> {Some(td) : td \in IF nslit = 1
                                                    THEN TrcDicts \cup TrcDictsEdge
                                                    ELSE TrcDictsFew}]
    /\ all_ttilts = [s \in Slits |-> Some(ttilts_of(s))]
    /\ tilts = final_tilts
    /\ tilts_dict = None
    /\ slitmask = Some(SlitMaskImage)
    /\ arc_maskslit = None
    /\ pc = "idle"
    /\ gdslits = <<>>
    /\ cursor = 1
    /\ ret = None
    /\ exc = None
    /\ trace = None
    /\ run_count = 0
    /\ calls = <<>>
    /\ entry = None
    /\ prev = None
    /\ slit_pc = [s \in Slits |-> "idle"]

InitIO ==
    /\ nslit \in 0 .. MaxSlits
    /\ msarc = [nspec |-> 1, nspat |-> nslit + 1]
    /\ par = [method |-> "spca", tracethresh |-> "number", func2D |-> "legendre",
                  order |-> 0, yorder |-> 2,
                  threshnum |-> 10, threshlist |-> [s \in Slits |-> 10]]
    /\ maskslits = None
    /\ env = [arcfail |-> [s \in Slits |-> FALSE],
              peaks |-> [s \in Slits |-> OneLinePeaks],
              extfail |-> <<"none", -1>>,
              edges |-> ColumnEdges, wv_calib |-> None]
    /\ FreshObject \/ TracedObject
    /\ NoFile
    /\ NoBuild

NextIO ==
    \/ save_master
    \/ \E force \in BOOLEAN : load_master(force)
    \/ from_master_files

SpecIO == InitIO /\ [][NextIO]_vars

(***************************************************************************)
(* run on an object that is fresh or whose slits have been traced before.  *)
(***************************************************************************)
InitTraced ==
    /\ nslit \in 0 .. MaxSlits
    /\ msarc = [nspec |-> 2, nspat |-> nslit + 1]
    /\ \E m \in {"zero", "ZERO", "spca"} :
           par = [method |-> m, tracethresh |-> "number", func2D |-> "legendre",
                  order |-> 0, yorder |-> 2,
                  threshnum |-> 10, threshlist |-> [s \in Slits |-> 10]]
    /\ maskslits = None
    /\ \E pk \in PeakCases :
           env = [arcfail |-> [s \in Slits |-> FALSE],
                  peaks |-> [s \in Slits |-> pk],
                  extfail |-> <<"none", -1>>,
                  edges |-> ColumnEdges, wv_calib |-> None]
    /\ FreshObject \/ TracedObject
    /\ Lower(par.method) # "zero" =>
           \A s \in Slits : all_trcdict[s] \in {None} \cup {Some(td) : td \in TrcDictsFew}
    /\ NoFile
    /\ NoBuild

SpecTraced == InitTraced /\ [][Next]_vars

(***************************************************************************)
(* run and the master file together: an object that is run, saved and      *)
(* loaded in any order, the master-file calls made between calls of run.   *)
(***************************************************************************)
InitRunIO ==
    /\ nslit \in 0 .. MaxSlits
    /\ msarc = [nspec |-> 2, nspat |-> nslit + 1]
    /\ \E m \in {"spca", "zero"} :
           par = [method |-> m, tracethresh |-> "number", func2D |-> "legendre",
                  order |-> 0, yorder |-> 2,
                  threshnum |-> 10, threshlist |-> [s \in Slits |-> 10]]
    /\ maskslits \in {None} \cup {Some(m) : m \in [Slits -> BOOLEAN]}
    /\ \E af \in BOOLEAN, pk \in PeakCases :
           env = [arcfail |-> [s \in Slits |-> af],
                  peaks |-> [s \in Slits |-> pk],
                  extfail |-> <<"none", -1>>,
              edges |-> ColumnEdges, wv_calib |-> None]
    /\ FreshObject
    /\ NoFile
    /\ NoBuild

NextRunIO ==
    \/ Next
    \/ NextIO

SpecRunIO == InitRunIO /\ [][NextRunIO]_vars

(***************************************************************************)
(* images/buildimage.py: buildimage_fromlist.                              *)
(***************************************************************************)
\* det: a detector number, or a tuple of them
Dets == {[tuple |-> FALSE, ids |-> <<1>>], [tuple |-> FALSE, ids |-> <<2>>],
         [tuple |-> TRUE, ids |-> <<1, 2>>], [tuple |-> TRUE, ids |-> <<1>>]}

FrameTypes == {"bias", "dark", "arc", "tilt", "trace", "align", "pixelflat",
               "science", "bogus"}

\* pypeit.core.framematch.valid_frametype
valid_frametype(ft) == ft # "bogus"

\* the keys of frame_image_classes
frame_image_classes == {"bias", "dark", "arc", "tilt", "trace", "align"}

\* a mosaic whenever det is a tuple
MosaicFlagDetOnly(mosaic_arg, det, ft) ==
    IF mosaic_arg = None THEN det.tuple ELSE mosaic_arg.val

\* if mosaic is None:
\*     mosaic = isinstance(det, tuple) and frametype not in ['bias', 'dark']
MosaicFlag(mosaic_arg, det, ft) ==
    IF mosaic_arg = None
    THEN det.tuple /\ ft \notin {"bias", "dark"}
    ELSE mosaic_arg.val

buildimage_fromlist ==
    /\ build.status = "idle"
    /\ IF MsgsErrorRaises /\ (~build.par_ok \/ ~valid_frametype(build.frametype))
       THEN build' = [build EXCEPT !.status = "raised"]
       ELSE build' = [build EXCEPT
                         !.status = "returned",
                         !.mosaic = Some(MosaicFlag(build.mosaic_arg, build.det,
                                                    build.frametype)),
                         !.cls = IF build.frametype \in frame_image_classes
                                 THEN build.frametype ELSE "None"]
    /\ UNCHANGED <<inputs, object, store>>

InitBuild ==
    /\ nslit = 0
    /\ msarc = [nspec |-> 1, nspat |-> 1]
    /\ par = [method |-> "spca", tracethresh |-> "number", func2D |-> "legendre",
                  order |-> 0, yorder |-> 2,
                  threshnum |-> 10, threshlist |-> [s \in Slits |-> 10]]
    /\ maskslits = None
    /\ env = [arcfail |-> [s \in Slits |-> FALSE],
              peaks |-> [s \in Slits |-> OneLinePeaks],
              extfail |-> <<"none", -1>>,
              edges |-> ColumnEdges, wv_calib |-> None]
    /\ FreshObject
    /\ disk = None
    /\ io = <<>>
    /\ loaded = None
    /\ io_count = 0
    /\ \E d \in Dets, ft \in FrameTypes, ok \in BOOLEAN,
          m \in {None, Some(TRUE), Some(FALSE)} :
           build = [det |-> d, frametype |-> ft, par_ok |-> ok,
                    mosaic_arg |-> m, status |-> "idle", mosaic |-> None,
                    cls |-> "None"]

NextBuild == buildimage_fromlist

SpecBuild == InitBuild /\ [][NextBuild]_vars

(***************************************************************************)
(* Properties of run.                                                      *)
(***************************************************************************)
FullMode == Lower(par.method) # "zero"
ThreshValid == par.tracethresh \in {"number", "list"}
Returned == pc = "done"
Ended == pc \in {"done", "raised"}
Region(s) == {p \in Pixels : SlitMaskImage[p] = s}
Entered(stage, s) == \E i \in DOMAIN calls : calls[i] = <<stage, s>>
Touched(s) == \E i \in DOMAIN calls : calls[i][2] = s
RegionIs(s, image) ==
    /\ final_tilts # None
    /\ \A p \in Region(s) : final_tilts.val[p] = image[p]
ZeroImage == [p \in Pixels |-> Zero]

\* C1: in zero mode run leaves TiltMap[r,c] = r/(N-1) on an N x M exposure,
\* for every row r and column c, whatever the slits, masks and arc lines are
\* (with one row, N = 1, the map is the single value 0).
C1_ZeroTiltsIsRamp ==
    (par.method \in {"zero", "ZERO"} /\ run_count >= 1) =>
        /\ Returned
        /\ final_tilts # None
        /\ DOMAIN final_tilts.val = Pixels
        /\ \A p \in Pixels :
              LET v == final_tilts.val[p]
              IN /\ v[2] > 0
                 /\ IF msarc.nspec = 1 THEN v[1] = 0
                    ELSE v[1] * (msarc.nspec - 1) = p[1] * v[2]

C1_Witness ==
    /\ par.method = "zero"
    /\ Returned
    /\ msarc.nspec = 3
    /\ nslit = 2
    /\ final_tilts.val[<<1, 2>>] = <<1, 2>>
    /\ final_tilts.val[<<2, 0>>] = <<1, 1>>

\* C2: a slit whose entry in the maskslits argument is true is not traced,
\* analysed or fitted by a full run, and the pixels of its region stay at
\* the value the tilt image starts with.
C2_MaskedSlitUntouched ==
    \A s \in Slits :
        (FullMode /\ run_count >= 1 /\ MaskArg[s]) =>
            /\ ~Touched(s)
            /\ RegionIs(s, ZeroImage)

\* C3: a slit with no usable arc line ends the run excluded (mask entry
\* true) with its region at zero, and run returns normally.
C3_NoLinesFallback ==
    \A s \in Slits :
        (/\ FullMode
         /\ ThreshValid
         /\ Ended
         /\ Entered("_trace_tilts", s)
         /\ nlines(env.peaks[s]) = 0) =>
            /\ Returned
            /\ mask.val[s]
            /\ RegionIs(s, ZeroImage)

\* C4: a stage failing for slit i does not abort run: no exception leaves
\* run, and when run ends every other good slit j has its surface in its
\* region and its coefficients in slice j.
C4_FailureIsolated ==
    \A i \in Slits :
        (/\ FullMode
         /\ ThreshValid
         /\ Ended
         /\ Touched(i)
         /\ \/ nlines(env.peaks[i]) > 0
            \/ \E st \in {"analyze", "fit"} : StageFails(st, i)) =>
            /\ Returned
            /\ \A j \in Slits \ {i} :
                  (~mask.val[j] /\ nlines(env.peaks[j]) = 0) =>
                      /\ RegionIs(j, fit_image(j))
                      /\ coeffs.val[j] = fit_coeffs(j)

\* C5: the mask vector run returns is the record of the result: a slit with
\* a false entry has its fitted surface in the tilt image, and a slit that
\* was excluded, or whose arc extraction or line selection failed, has a true
\* entry.
C5_ReturnedMaskAuthoritative ==
    (FullMode /\ Returned) =>
        \A s \in Slits :
            /\ ~MaskArg[s] => RegionIs(s, fit_image(s))
            /\ (\/ mask.val[s]
                \/ env.arcfail[s]
                \/ (Entered("_trace_tilts", s) /\ nlines(env.peaks[s]) = 0))
               => MaskArg[s]

\* C7: with a tracethresh that is neither a number nor a list, or a method
\* that is not supported, run raises before anything is computed: the arcs
\* are not extracted, no slit is traced, and final_tilts, coeffs, mask and
\* steps are as they were at the call.
C7_ConfigErrorRaisedFirst ==
    (run_count >= 1 /\ (~ThreshValid \/ par.method = "bogus")) =>
        /\ pc = "raised"
        /\ calls = <<>>
        /\ Outputs = entry.val

\* C10: a second call of run on the same object with the same inputs leaves
\* the same tilt image and the same coefficients as the call before it.
C10_RunIsIdempotent ==
    (run_count >= 2 /\ Ended) =>
        /\ final_tilts = prev.val.final_tilts
        /\ coeffs = prev.val.coeffs

C10_Witness ==
    /\ run_count = 2
    /\ Returned
    /\ FullMode
    /\ nslit = 2
    /\ RegionIs(0, fit_image(0))
    /\ RegionIs(1, fit_image(1))
    /\ coeffs.val[1] = fit_coeffs(1)

\* C16: a step of the iteration of run for slit i changes no pixel of the
\* tilt image outside slit i's region (pixels of other slits and of no slit
\* keep their values) and no slice of the coefficients but slice i, and the
\* coefficients have the shape [order + 2, yorder + 1, nslit].
C16_IterationFrame ==
    [][(FullMode /\ pc \in {"trace", "analyze", "fit", "save"}) =>
          /\ \A p \in Pixels :
                slitmask.val[p] # slit => final_tilts'.val[p] = final_tilts.val[p]
          /\ \A s \in Slits \ {slit} : coeffs'.val[s] = coeffs.val[s]
          /\ DOMAIN coeffs'.val = 0 .. (nslit - 1)
          /\ \A s \in Slits :
                DOMAIN coeffs'.val[s] =
                    (0 .. (par.order + 1)) \X (0 .. par.yorder)]_vars

C16_Witness ==
    /\ FullMode
    /\ run_count = 1
    /\ nslit = 2
    /\ pc = "finish"
    /\ Entered("save", 0)
    /\ Entered("save", 1)
    /\ RegionIs(0, fit_image(0))
    /\ RegionIs(1, fit_image(1))
    /\ final_tilts.val[<<0, 2>>] = Zero
    /\ coeffs.val[0] = fit_coeffs(0)
    /\ coeffs.val[1] = fit_coeffs(1)

\* C22: a call of run in zero mode extracts no arcs and runs no stage for
\* any slit, appends nothing to steps, and leaves mask, coeffs, the trace
\* state of the slits and tilts_dict as they were; final_tilts alone is
\* replaced (by the ramp).
C22_ZeroModeFrame ==
    [][(Lower(par.method) = "zero" /\ run_count' # run_count) =>
          /\ calls' = <<>>
          /\ pc' = "done"
          /\ steps' = steps
          /\ mask' = mask
          /\ coeffs' = coeffs
          /\ all_trcdict' = all_trcdict
          /\ all_ttilts' = all_ttilts
          /\ tilts' = tilts
          /\ tilts_dict' = tilts_dict
          /\ arc_maskslit' = arc_maskslit
          /\ slitmask' = slitmask
          /\ final_tilts' = Some(ZeroTilts)]_vars

C22_Witness ==
    /\ par.method = "zero"
    /\ Returned
    /\ run_count = 1
    /\ nslit = 2
    /\ steps = <<>>
    /\ mask = Some([s \in Slits |-> s = 0])
    /\ coeffs = Some([s \in Slits |-> fit_coeffs(s)])
    /\ all_trcdict[1] # None
    /\ all_ttilts[1] # None
    /\ tilts # final_tilts
    /\ final_tilts = Some(ZeroTilts)

\* C14: the slits run leaves out of its loop are those masked by the caller
\* together with those whose arc extraction failed: a slit is in the loop
\* only if its maskslits entry is false and its arc was extracted.
C14_ExcludedIsUnion ==
    (FullMode /\ run_count >= 1) =>
        \A s \in Slits :
            Excluded(gdslits, s) <=> (MaskArg[s] \/ env.arcfail[s])

\* the stages of the slits of gd from position i on, each slit's four stages
\* in order, and the entries of the steps log for them
RECURSIVE StagesInOrder(_, _)
StagesInOrder(gd, i) ==
    IF i > Len(gd) THEN <<>>
    ELSE << <<"_trace_tilts", gd[i]>>, <<"_analyze_lines", gd[i]>>,
            <<"_fit_tilts", gd[i]>>, <<"save", gd[i]>> >>
         \o StagesInOrder(gd, i + 1)

RECURSIVE StepsInOrder(_, _)
StepsInOrder(gd, i) ==
    IF i > Len(gd) THEN <<>>
    ELSE <<"_trace_tilts", "_analyze_lines", "_fit_tilts">>
         \o StepsInOrder(gd, i + 1)

\* C15: a full run extracts the arcs once, then takes the slits of the loop
\* in strictly ascending order, each through trace, line analysis, 2D fit and
\* write-back before the next slit's trace, and the steps log lists the arc
\* extraction followed by the stages of each slit in that order.
C15_StageOrder ==
    (FullMode /\ Returned /\ run_count = 1) =>
        /\ \A i \in 1 .. (Len(gdslits) - 1) : gdslits[i] < gdslits[i + 1]
        /\ calls = StagesInOrder(gdslits, 1)
        /\ steps = <<"_extract_arcs">> \o StepsInOrder(gdslits, 1)

\* the first part of C15 alone: the order of the stages
C15_OrderOfCalls ==
    (FullMode /\ Returned /\ run_count = 1) =>
        /\ \A i \in 1 .. (Len(gdslits) - 1) : gdslits[i] < gdslits[i + 1]
        /\ calls = StagesInOrder(gdslits, 1)

(***************************************************************************)
(* Properties of the arc-line selection.                                   *)
(***************************************************************************)
PassesThresh(pk, i) == pk[i].nsig >= tracethresh
WithinRadius(pk, i, j) == Abs(pk[i].pos - pk[j].pos) <= HalfPix(n_neigh)

\* C6: of two detections that both pass the threshold and lie within the
\* suppression radius of each other, the less significant one is not usable,
\* of two equally significant ones only the first is, and so no two usable
\* detections lie within the radius of each other.
C6_NeighbourSuppression ==
    trace # None =>
        LET pk == trace.val.peaks
            use == trace.val.aduse
        IN \A i, j \in DOMAIN pk :
              (/\ i < j
               /\ PassesThresh(pk, i)
               /\ PassesThresh(pk, j)
               /\ WithinRadius(pk, i, j)) =>
                  /\ pk[i].nsig < pk[j].nsig => ~use[i]
                  /\ pk[j].nsig < pk[i].nsig => ~use[j]
                  /\ pk[i].nsig = pk[j].nsig => ~use[j]
                  /\ ~(use[i] /\ use[j])

\* C20: when a list of expected line positions is given to the tracing of a
\* slit, no detection farther than 2 pixels from every expected position is
\* usable, and a detection that passes the threshold and the neighbour
\* suppression and lies within 2 pixels of an expected position is.
C20_ExpectedLinesOnly ==
    (trace # None /\ env.wv_calib # None) =>
        LET pk == trace.val.peaks
            ids == env.wv_calib.val
            near(i) == \E j \in DOMAIN ids : Abs(pk[i].pos - ids[j]) <= HalfPix(2)
            kept == SuppressLoop(pk, IndicesWhere(trace.val.olduse, 1),
                                 trace.val.olduse)
        IN \A i \in DOMAIN pk :
              /\ ~near(i) => ~trace.val.aduse[i]
              /\ (kept[i] /\ near(i)) => trace.val.aduse[i]

\* C17: the lines of slit s are selected with the configured threshold, the
\* number when tracethresh is a number and entry s when it is a list: a
\* detection is a candidate exactly when its significance is at least that.
C17_ConfiguredThreshold ==
    trace # None =>
        LET pk == trace.val.peaks
            configured == IF par.tracethresh = "number" THEN par.threshnum
                          ELSE par.threshlist[trace.val.slit]
        IN /\ trace.val.thresh_in = configured
           /\ \A i \in DOMAIN pk :
                 trace.val.olduse[i] <=> (pk[i].nsig >= configured)

\* C18: for a selected line the rows marked valid are exactly the rows of
\* its window [spat_min, spat_max) that lie on the detector, 0 <= r < nspat:
\* no row off the detector is marked, every window row on the detector is
\* (the last row nspat - 1 included), also when the window overruns both
\* edges, and the loop does not fail.
C18_WindowClipped ==
    (trace # None /\ trace.val.window # NoWindow) =>
        LET win == trace.val.window
        IN /\ win.error = "none"
           /\ win.valid = {r \in win.spat_min .. (win.spat_max - 1) :
                              0 <= r /\ r < msarc.nspat}

\* the window [5, 10) on a detector of 10 rows: rows 5 to 8 are marked
C18_LastRowDropped ==
    /\ trace # None
    /\ msarc.nspat = 10
    /\ trace.val.window = [spat_min |-> 5, spat_max |-> 10, error |-> "none",
                           valid |-> {5, 6, 7, 8}]

\* the window [-3, 12) on a detector of 10 rows: the loop fails
C18_BothEdgesFail ==
    /\ trace # None
    /\ msarc.nspat = 10
    /\ trace.val.window = [spat_min |-> -3, spat_max |-> 12,
                           error |-> "ValueError", valid |-> {}]

(***************************************************************************)
(* Properties of the master file.                                          *)
(***************************************************************************)
\* C8: load_master on a missing file returns None when force is false and
\* fails when force is true; on an existing file it returns the tilts, the
\* coefficients and the FUNC2D tag of the file.
C8_LoadMaster ==
    \A n \in DOMAIN io :
        io[n].op = "load_master" =>
            /\ ~io[n].found =>
                  IF io[n].force THEN io[n].status = "raised"
                  ELSE io[n].status = "returned" /\ io[n].ret = None
            /\ io[n].found =>
                  /\ io[n].status = "returned"
                  /\ io[n].ret # None
                  /\ n = Len(io) =>
                        io[n].ret.val = [tilts |-> disk.val.tilts,
                                         coeffs |-> disk.val.coeffs,
                                         func2D |-> disk.val.func2D]

C8_Witness ==
    /\ Len(io) = 2
    /\ io[1].op = "save_master"
    /\ io[2].op = "load_master"
    /\ io[2].found
    /\ io[2].ret # None
    /\ io[2].ret.val.coeffs = coeffs
    /\ io[2].ret.val.tilts = final_tilts.val
    /\ nslit = 2

\* C9: what from_master_files reads back for a saved slit is, line by line,
\* the raw trace xtfit that was saved, with its own length, and (for the
\* lines save_master computes one for, the usable ones) the line's y centre.
C9_TraceRoundTrip ==
    loaded # None =>
        \A i \in DOMAIN loaded.val.all_trcdict :
            loaded.val.all_trcdict[i] # None =>
                LET back == loaded.val.all_trcdict[i].val
                    s == disk.val.fwm[i].slit
                    td == all_trcdict[s].val
                IN \A k \in DOMAIN td.xtfit :
                      td.xtfit[k] # None =>
                          /\ back.xtfit[k] = td.xtfit[k].val
                          /\ td.aduse[k] =>
                                back.ycen[k] = YCen(all_ttilts[s].val, td, k)

\* C19: in what from_master_files reads back for a saved slit there are as
\* many lines as were saved, and every line has the usability flag (aduse) it
\* had when it was saved, whatever the values of its model trace are, zero
\* and negative ones included.
C19_UsableFlagRoundTrip ==
    loaded # None =>
        \A i \in DOMAIN loaded.val.all_trcdict :
            loaded.val.all_trcdict[i] # None =>
                LET back == loaded.val.all_trcdict[i].val
                    td == all_trcdict[disk.val.fwm[i].slit].val
                IN /\ Len(back.xtfit) = Len(td.xtfit)
                   /\ Len(back.aduse) = Len(td.aduse)
                   /\ \A k \in DOMAIN td.aduse : back.aduse[k] = td.aduse[k]

\* C21: the file save_master writes has one FWM extension, named by the slit
\* index, for exactly the slits whose mask entry is false, and the list
\* from_master_files rebuilds from it has one entry per slit, entry s a trace
\* dictionary when slit s had an extension and None when it had not, whatever
\* slits are masked.
C21_ExtensionPerGoodSlit ==
    loaded # None =>
        LET fwm == disk.val.fwm
            back == loaded.val.all_trcdict
        IN /\ Len(fwm) = Cardinality({s \in Slits : ~mask.val[s]})
           /\ \A s \in Slits :
                 ~mask.val[s] <=> \E i \in DOMAIN fwm : fwm[i].slit = s
           /\ Len(back) = nslit
           /\ \A s \in Slits : back[s + 1] # None <=> ~mask.val[s]

\* the first half of C21 alone: the extensions of the file
C21_ExtensionsWritten ==
    disk # None =>
        LET fwm == disk.val.fwm
        IN /\ Len(fwm) = Cardinality({s \in Slits : ~mask.val[s]})
           /\ \A s \in Slits :
                 ~mask.val[s] <=> \E i \in DOMAIN fwm : fwm[i].slit = s

C11_SaveLoadRoundTrip ==
    \A n \in 2 .. Len(io) :
        (/\ FullMode
         /\ Returned
         /\ io[n - 1].op = "save_master"
         /\ io[n - 1].run = run_count
         /\ io[n].op = "load_master"
         /\ io[n].run = run_count) =>
            /\ io[n - 1].status = "returned"
            /\ io[n].status = "returned"
            /\ io[n].ret # None
            /\ io[n].ret.val = [tilts |-> final_tilts.val,
                                coeffs |-> coeffs,
                                func2D |-> par.func2D]

\* C23: after a call of run has returned normally, in zero mode or in full
\* mode and for any number of slits, the mask is defined for every slit,
\* every slit whose mask entry is false has its trace dictionary and its
\* per-line tilt data, and a save_master executed then ends without error;
\* on an object whose final_tilts was never created save_master returns and
\* writes no file.
C23_SaveAfterRunSucceeds ==
    /\ (run_count >= 1 /\ Returned) =>
           /\ nslit > 0 =>
                  /\ mask # None
                  /\ \A s \in Slits :
                        ~mask.val[s] =>
                            (all_trcdict[s] # None /\ all_ttilts[s] # None)
           /\ \A n \in DOMAIN io :
                  (io[n].op = "save_master" /\ io[n].run = run_count) =>
                      io[n].status = "returned"
    /\ run_count = 0 =>
           /\ disk = None
           /\ \A n \in DOMAIN io :
                  io[n].op = "save_master" => io[n].status = "returned"

\* the last part of C23 alone: without final_tilts nothing is written
C23_NothingToSave ==
    run_count = 0 =>
        /\ disk = None
        /\ \A n \in DOMAIN io :
               io[n].op = "save_master" => io[n].status = "returned"

\* C12: when the iterations of distinct slits are interleaved, a run that
\* ends normally leaves the tilt image and the coefficients of the run that
\* takes the slits one after the other in ascending order.
C12_InterleavingIsSafe ==
    (pc = "done" /\ \A s \in Slits : slit_pc[s] \in {"excluded", "done"}) =>
        /\ final_tilts.val = LoopFinal(gdslits, 1, ZeroImage)
        /\ coeffs.val = LoopCoeffs(gdslits, 1, [s \in Slits |-> ZeroSlice])

(***************************************************************************)
(* Properties of buildimage_fromlist.                                      *)
(***************************************************************************)
\* C13: the mosaic flag buildimage_fromlist hands to the combination is,
\* when the caller passes mosaic=None, true exactly when det is a tuple and
\* the frame type is neither 'bias' nor 'dark'; an explicit mosaic value is
\* used unchanged.
C13_MosaicFlag ==
    build.status = "returned" =>
        /\ build.mosaic # None
        /\ build.mosaic_arg = None =>
              (build.mosaic.val <=>
                  (build.det.tuple /\ build.frametype \notin {"bias", "dark"}))
        /\ build.mosaic_arg # None => build.mosaic = build.mosaic_arg

C13_Witness ==
    /\ build.status = "returned"
    /\ build.mosaic_arg = None
    /\ build.det.tuple
    /\ build.frametype = "dark"
    /\ build.mosaic = Some(FALSE)

====
